---- MODULE Spec2Model ----
(***************************************************************************)
(* Model of src/PointAndSeg.py: ScriptTool, the tree-top detection and     *)
(* canopy segmentation script.  A raster is a function from Cells to cell  *)
(* values.  A cell value is an exact rational <<n, d>> with d > 0 in       *)
(* lowest terms; NoData is <<0, 0>>.  Integer rasters hold <<k, 1>>.       *)
(* Distances are surds <<n, d, r>> standing for (n/d) * sqrt(r).           *)
(***************************************************************************)
EXTENDS Integers, Sequences, FiniteSets, TLC

----------------------------------------------------------------------------
(* Bounds of the model *)

NRows == 2
NCols == 4
MaxHeight == 3
Background == 1
TallHeight == 1000
CellSizeFine == 1
CellSizeCoarse == 15
MinHtLow == 2
MinHtHigh == 4

----------------------------------------------------------------------------
(* Literals of the script *)

\* line 37: CHM_Sm * 3.281, and line 90: ... * 3.281 * ...
FtPerM == <<3281, 1000>>
\* line 90: ... * 0.6
RuleACoef == <<6, 10>>
\* line 99: treeTopAllocHt * 0.3
RuleBCoef == <<3, 10>>
\* line 71: abs(1000 - CHM_Ft)
InvK == 1000
\* line 67: maximum_distance = 40
MaxAllocDist == 40
\* line 30: "Rectangle 3 3 CELL" reaches 1 cell each way
SmoothReach == 1
\* line 47: "Rectangle 5 5 CELL" reaches 2 cells each way
MaxReach == 2

----------------------------------------------------------------------------
(* Exact arithmetic on cell values *)

NoData == <<0, 0>>

IsData(v) == v[2] # 0

Whole(k) == <<k, 1>>

AbsInt(a) == IF a < 0 THEN -a ELSE a

RECURSIVE GCD(_, _)
GCD(a, b) == IF b = 0 THEN a ELSE GCD(b, a % b)

Norm(n, d) ==
    LET g == GCD(AbsInt(n), d)
    IN  <<n \div g, d \div g>>

\* a/b < c/d for b, d > 0, by continued fractions (no cross products)
RECURSIVE LessFrac(_, _, _, _)
LessFrac(a, b, c, d) ==
    LET qa == a \div b
        qc == c \div d
        ra == a % b
        rc == c % d
    IN  IF qa # qc THEN qa < qc
        ELSE IF rc = 0 THEN FALSE
        ELSE IF ra = 0 THEN TRUE
        ELSE LessFrac(d, rc, b, ra)

Less(x, y) ==
    IF x[2] = y[2] THEN x[1] < y[1] ELSE LessFrac(x[1], x[2], y[1], y[2])

Leq(x, y) == ~Less(y, x)

Mul(x, y) ==
    LET g1 == GCD(AbsInt(x[1]), y[2])
        g2 == GCD(AbsInt(y[1]), x[2])
    IN  Norm((x[1] \div g1) * (y[1] \div g2), (x[2] \div g2) * (y[2] \div g1))

Sub(x, y) ==
    LET g == GCD(x[2], y[2])
        l == (x[2] \div g) * y[2]
    IN  Norm(x[1] * (l \div x[2]) - y[1] * (l \div y[2]), l)

Add(x, y) == Sub(x, <<-y[1], y[2]>>)

Abs(x) == <<AbsInt(x[1]), x[2]>>

\* x / y for y > 0
Quot(x, y) == Mul(x, <<y[2], y[1]>>)

\* k1 * x^2 > k2 * y^2 for rationals x, y > 0 and integers k1, k2 > 0
SqGreater(k1, x, k2, y) ==
    LET t == Quot(x, y)
    IN  LessFrac(k2 * t[2], t[1], k1 * t[1], t[2])

\* map algebra on cells: NoData in, NoData out
Bool(b) == IF b THEN Whole(1) ELSE Whole(0)

CellGT(x, y) == IF IsData(x) /\ IsData(y) THEN Bool(Less(y, x)) ELSE NoData

CellEQ(x, y) == IF IsData(x) /\ IsData(y) THEN Bool(x = y) ELSE NoData

CellAdd(x, y) == IF IsData(x) /\ IsData(y) THEN Add(x, y) ELSE NoData

CellSub(x, y) == IF IsData(x) /\ IsData(y) THEN Sub(x, y) ELSE NoData

CellMul(x, y) == IF IsData(x) /\ IsData(y) THEN Mul(x, y) ELSE NoData

CellAbs(x) == IF IsData(x) THEN Abs(x) ELSE NoData

\* surds <<n, d, r>> = (n/d) * sqrt(r)
NoDist == <<0, 0, 0>>

IsDist(s) == s[2] # 0

Surd(q, r) == IF r = 0 \/ q[1] = 0 THEN <<0, 1, 0>> ELSE <<q[1], q[2], r>>

SurdMul(s, q) ==
    IF IsDist(s) /\ IsData(q) THEN Surd(Mul(<<s[1], s[2]>>, q), s[3]) ELSE NoDist

\* (n/d) * sqrt(r) > h
SurdGT(s, h) ==
    IF ~(IsDist(s) /\ IsData(h)) THEN NoData
    ELSE IF h[1] < 0 THEN Whole(1)
    ELSE IF s[3] = 0 THEN Whole(0)
    ELSE IF h[1] = 0 THEN Whole(1)
    ELSE Bool(SqGreater(s[3], <<s[1], s[2]>>, 1, h))

----------------------------------------------------------------------------
(* Rasters *)

Cells == (1..NRows) \X (1..NCols)

CellAt(k) == <<((k - 1) \div NCols) + 1, ((k - 1) % NCols) + 1>>

\* the raster f with every cell worked out once, in scan order from k on
RECURSIVE RasterFrom(_, _)
RasterFrom(f, k) ==
    IF k = NRows * NCols THEN CellAt(k) :> f[CellAt(k)]
    ELSE (CellAt(k) :> f[CellAt(k)]) @@ RasterFrom(f, k + 1)

Raster(f) == RasterFrom(f, 1)

Empty == Raster([c \in Cells |-> NoData])

\* the rectangle of (2*reach+1) x (2*reach+1) cells centred on c, cut at the
\* raster's edge
Window(c, reach) ==
    {n \in Cells : /\ AbsInt(n[1] - c[1]) <= reach
                   /\ AbsInt(n[2] - c[2]) <= reach}

DataIn(g, S) == {n \in S : IsData(g[n])}

RECURSIVE SumCells(_, _)
SumCells(g, S) ==
    IF S = {} THEN Whole(0)
    ELSE LET n == CHOOSE m \in S : TRUE
         IN  Add(g[n], SumCells(g, S \ {n}))

RECURSIVE MaxCell(_, _)
MaxCell(g, S) ==
    LET n == CHOOSE m \in S : TRUE
        rest == MaxCell(g, S \ {n})
    IN  IF S = {n} THEN g[n]
        ELSE IF Less(g[n], rest) THEN rest ELSE g[n]

\* arcpy.sa.ExtractByMask: cells outside the mask become NoData
ExtractByMask(in_raster, in_mask_data) ==
    Raster([c \in Cells |-> IF c \in in_mask_data THEN in_raster[c] ELSE NoData])

\* arcpy.sa.FocalStatistics(..., "Mean", ignore_nodata = "DATA"): the mean of
\* the valid cells of the window; NoData when the window holds none
FocalMean(g, reach) ==
    Raster([c \in Cells |->
        LET S == DataIn(g, Window(c, reach))
        IN  IF S = {} THEN NoData
            ELSE Mul(SumCells(g, S), <<1, Cardinality(S)>>)])

\* arcpy.sa.FocalStatistics(..., "MAXIMUM", ignore_nodata = "DATA")
FocalMax(g, reach) ==
    Raster([c \in Cells |->
        LET S == DataIn(g, Window(c, reach))
        IN  IF S = {} THEN NoData ELSE MaxCell(g, S)])

\* a where clause "VALUE < k" or "VALUE = k", as <<"<", k>> or <<"=", k>>,
\* holds of the value v
Where(where_clause, v) ==
    IF where_clause[1] = "<" THEN Less(v, where_clause[2])
    ELSE v = where_clause[2]

\* arcpy.sa.SetNull(cond, false_raster, where_clause): NoData where the
\* clause holds of cond or cond is NoData, else the false raster's cell
SetNull(cond, false_raster, where_clause) ==
    Raster([c \in Cells |->
        IF ~IsData(cond[c]) THEN NoData
        ELSE IF Where(where_clause, cond[c]) THEN NoData
        ELSE false_raster[c]])

\* arcpy.sa.EqualTo, cell by cell
EqualTo(g1, g2) == Raster([c \in Cells |-> CellEQ(g1[c], g2[c])])

----------------------------------------------------------------------------
(* Lines 28-40: smoothing and unit conversion *)

SmoothCHM(CHM_Ext_, smooth) ==
    IF smooth = "true" THEN FocalMean(CHM_Ext_, SmoothReach) ELSE CHM_Ext_

\* fault variant of lines 36-40: the factor applied whatever the switch says
ConvertAlways(CHM_Sm_, convert) ==
    Raster([c \in Cells |-> CellMul(CHM_Sm_[c], FtPerM)])

ConvertCHM(CHM_Sm_, convert) ==
    IF convert = "true"
    THEN Raster([c \in Cells |-> CellMul(CHM_Sm_[c], FtPerM)])
    ELSE CHM_Sm_

----------------------------------------------------------------------------
(* Lines 42-53: minimum height and local maxima *)

\* line 43: SetNull(CHM_Ft, CHM_Ft, "VALUE < " + parameter4)
MinHeightMask(CHM_Ft_, minHt) ==
    SetNull(CHM_Ft_, CHM_Ft_, <<"<", Whole(minHt)>>)

\* fault variant of line 47: a 3 x 3 window
LocalMaxNarrow(CHM_MinHt_) == FocalMax(CHM_MinHt_, MaxReach - 1)

\* line 47
LocalMax(CHM_MinHt_) == FocalMax(CHM_MinHt_, MaxReach)

\* lines 50-53: EqualTo(CHM_LocalMax, CHM_MinHt), then SetNull "Value = 0"
TreeLocHt(CHM_MinHt_) ==
    LET treeLoc == EqualTo(LocalMax(CHM_MinHt_), CHM_MinHt_)
    IN  SetNull(treeLoc, CHM_MinHt_, <<"=", Whole(0)>>)

----------------------------------------------------------------------------
(* Lines 55-64: tree-top points and their ids *)

\* the valid cells of g from scan position k on, in scan order
RECURSIVE ScanFrom(_, _)
ScanFrom(g, k) ==
    IF k > NRows * NCols THEN <<>>
    ELSE IF IsData(g[CellAt(k)]) THEN <<CellAt(k)>> \o ScanFrom(g, k + 1)
    ELSE ScanFrom(g, k + 1)

\* arcpy.conversion.RasterToPoint plus the two AlterField calls: one point
\* per valid cell in scan order, pointid -> TreeId, grid_code -> Height
RasterToPoint(g) ==
    LET cells == ScanFrom(g, 1)
    IN  [i \in 1..Len(cells) |->
            [TreeId |-> i, cell |-> cells[i], Height |-> g[cells[i]]]]

\* arcpy.sa.ReclassByTable(treeLocHt, treeTop, "Height", "Height", "TreeId",
\* "DATA"): a cell's value is looked up among the rows by its height; when
\* several rows carry that height the row used is the first or the last
\* (pick); a value in no row is kept
ReclassByTable(g, table, pick) ==
    Raster([c \in Cells |->
        IF ~IsData(g[c]) THEN NoData
        ELSE LET rows == {i \in DOMAIN table : table[i].Height = g[c]}
                 first == CHOOSE i \in rows : \A j \in rows : i <= j
                 last == CHOOSE i \in rows : \A j \in rows : j <= i
             IN  IF rows = {} THEN g[c]
                 ELSE IF pick = "first" THEN Whole(table[first].TreeId)
                 ELSE Whole(table[last].TreeId)])

----------------------------------------------------------------------------
(* Lines 66-68: Euclidean allocation *)

SqOffset(a, b) ==
    (a[1] - b[1]) * (a[1] - b[1]) + (a[2] - b[2]) * (a[2] - b[2])

\* the source cell among S a cell is allocated to: a nearest one, the one
\* with the lowest value among equally near ones
NearestSource(src, S, c) ==
    CHOOSE s \in S :
        \A t \in S :
            \/ SqOffset(c, s) < SqOffset(c, t)
            \/ /\ SqOffset(c, s) = SqOffset(c, t)
               /\ Leq(src[s], src[t])

\* the ground distance res * sqrt(k) exceeds maximum_distance
TooFar(k, res) == res * res * k > MaxAllocDist * MaxAllocDist

\* arcpy.sa.EucAllocation(in_source_data, maximum_distance = 40,
\* out_distance_raster): each cell with the value of, and the ground distance
\* to, the nearest source cell within the maximum distance
EucAllocation(src, res) ==
    LET S == DataIn(src, Cells)
        near == Raster([c \in Cells |-> NearestSource(src, S, c)])
        reach == {c \in Cells : S # {} /\ ~TooFar(SqOffset(c, near[c]), res)}
    IN  [value |-> Raster([c \in Cells |->
                      IF c \in reach THEN src[near[c]] ELSE NoData]),
         distance |-> Raster([c \in Cells |->
                         IF c \in reach
                         THEN Surd(Whole(res), SqOffset(c, near[c]))
                         ELSE NoDist])]

----------------------------------------------------------------------------
(* Lines 70-77: inverted surface, flow direction, watersheds *)

\* fault variant of line 71: 1000 - CHM_Ft without abs
InvertNoAbs(CHM_Ft_) ==
    Raster([c \in Cells |-> CellSub(Whole(InvK), CHM_Ft_[c])])

\* fault variant of line 71: cells at or above the constant left out
InvertBelowKOnly(CHM_Ft_) ==
    Raster([c \in Cells |->
        IF IsData(CHM_Ft_[c]) /\ Less(CHM_Ft_[c], Whole(InvK))
        THEN CellSub(Whole(InvK), CHM_Ft_[c])
        ELSE NoData])

\* line 71: abs(1000 - CHM_Ft)
InvertCHM(CHM_Ft_) ==
    Raster([c \in Cells |-> CellAbs(CellSub(Whole(InvK), CHM_Ft_[c]))])

\* D8 codes in the order E, SE, S, SW, W, NW, N, NE
DirCode == <<1, 2, 4, 8, 16, 32, 64, 128>>

DirOffset ==
    << <<0, 1>>, <<1, 1>>, <<1, 0>>, <<1, -1>>,
       <<0, -1>>, <<-1, -1>>, <<-1, 0>>, <<-1, 1>> >>

Neighbour(c, i) == <<c[1] + DirOffset[i][1], c[2] + DirOffset[i][2]>>

Diagonal(i) == i % 2 = 0

\* direction i leads to a valid, strictly lower cell
Downhill(z, c, i) ==
    /\ Neighbour(c, i) \in Cells
    /\ IsData(z[Neighbour(c, i)])
    /\ Less(z[Neighbour(c, i)], z[c])

\* the slope along i exceeds the slope along j, for the drops di and dj along
\* them (a diagonal step is sqrt(2) cells long)
Steeper(i, di, j, dj) ==
    IF Diagonal(i) = Diagonal(j) THEN Less(dj, di)
    ELSE IF Diagonal(j) THEN SqGreater(2, di, 1, dj)
    ELSE SqGreater(1, di, 2, dj)

\* arcpy.sa.FlowDirection(..., "NORMAL", "D8"): the code of the steepest
\* downhill neighbour, the first in DirCode order among equally steep ones;
\* 0 when no neighbour is strictly lower
FlowDirection(z) ==
    Raster([c \in Cells |->
        IF ~IsData(z[c]) THEN NoData
        ELSE LET down == {i \in 1..8 : Downhill(z, c, i)}
                 drop == [i \in down |-> Sub(z[c], z[Neighbour(c, i)])]
                 best == CHOOSE i \in down :
                            \A j \in down \ {i} :
                                \/ Steeper(i, drop[i], j, drop[j])
                                \/ /\ ~Steeper(j, drop[j], i, drop[i])
                                   /\ i < j
             IN  IF down = {} THEN Whole(0) ELSE Whole(DirCode[best])])

Downstream(flow, c) ==
    Neighbour(c, CHOOSE i \in 1..8 : Whole(DirCode[i]) = flow[c])

\* the value of the first pour point on the path from c, c itself included
RECURSIVE Drain(_, _, _, _)
Drain(flow, pour, c, seen) ==
    IF IsData(pour[c]) THEN pour[c]
    ELSE IF ~IsData(flow[c]) \/ flow[c] = Whole(0) \/ c \in seen THEN NoData
    ELSE Drain(flow, pour, Downstream(flow, c), seen \cup {c})

\* arcpy.sa.Watershed(in_flow_direction_raster, in_pour_point_data)
Watershed(flow, pour) == Raster([c \in Cells |-> Drain(flow, pour, c, {})])

----------------------------------------------------------------------------
(* Lines 83-105: the two segmentations reconciled *)

\* fault variant of line 90: the factor 3.281 left out
DistGT60HmaxNoFt(treeTopDist_, res, CHM_Ft_) ==
    Raster([c \in Cells |->
        SurdGT(SurdMul(SurdMul(treeTopDist_[c], Whole(res)), RuleACoef),
               CHM_Ft_[c])])

\* line 90: (treeTopDist * float(Resolution) * 3.281 * 0.6) > CHM_Ft
DistGT60HmaxOf(treeTopDist_, res, CHM_Ft_) ==
    Raster([c \in Cells |->
        SurdGT(SurdMul(SurdMul(SurdMul(treeTopDist_[c], Whole(res)), FtPerM),
                       RuleACoef),
               CHM_Ft_[c])])

\* lines 93-96: JoinField on Value = TreeId, then Lookup of "Height"
Lookup(alloc, table) ==
    Raster([c \in Cells |->
        LET rows == {i \in DOMAIN table : Whole(table[i].TreeId) = alloc[c]}
        IN  IF ~IsData(alloc[c]) \/ rows = {} THEN NoData
            ELSE table[CHOOSE i \in rows : TRUE].Height])

\* line 99: (treeTopAllocHt * 0.3) > CHM_Ft
Htmx30GTCHMOf(treeTopAllocHt_, CHM_Ft_) ==
    Raster([c \in Cells |-> CellGT(CellMul(treeTopAllocHt_[c], RuleBCoef), CHM_Ft_[c])])

\* fault variant of line 102: the two conditions multiplied
SegNullBoth(a, b) == Raster([c \in Cells |-> CellMul(a[c], b[c])])

\* line 102: DistGT60Hmax + Htmx30GTCHM
SegNullOf(a, b) == Raster([c \in Cells |-> CellAdd(a[c], b[c])])

\* fault variant of line 105: the agreement raster left out of the condition
CanopySegRasRulesOnly(wsEqAlloc, segNull, alloc) ==
    SetNull(Raster([c \in Cells |-> CellSub(Whole(1), segNull[c])]),
            alloc, <<"<", Whole(1)>>)

\* line 105: SetNull(CHM_WsEqAlloc - SegNull, treeTopAlloc, "VALUE < 1")
CanopySegRasOf(wsEqAlloc, segNull, alloc) ==
    SetNull(Raster([c \in Cells |-> CellSub(wsEqAlloc[c], segNull[c])]),
            alloc, <<"<", Whole(1)>>)

\* lines 108-122: one polygon record per id left in the raster, with the
\* Height joined from treeTop on gridcode = TreeId
Polygons(seg, table) ==
    {[TreeId |-> table[i].TreeId, Height |-> table[i].Height] :
        i \in {j \in DOMAIN table :
                 \E c \in Cells : seg[c] = Whole(table[j].TreeId)}}

----------------------------------------------------------------------------
(* State of one run of ScriptTool *)

VARIABLES
    parameter0,         \* canopy height model (raster)
    parameter1,         \* clipping feature (the cells it covers)
    parameter2,         \* smoothing switch, as text
    parameter3,         \* m to ft switch, as text
    parameter4,         \* minimum tree height
    cellSize,           \* CELLSIZEX of the raster
    pc,                 \* the block of ScriptTool to run next
    CHM_Ext, CHM_Sm, CHM_Ft, CHM_MinHt, treeLocHt,
    treeTop, treeTopReclass, treeTopAlloc, treeTopDist,
    CHM_Inv, CHM_Flow, CHM_watershed,
    CHM_WsEqAlloc, DistGT60Hmax, treeTopAllocHt, Htmx30GTCHM, CanopySegRas,
    CanopySegmentation,
    outNames,           \* rasterName, treeTopName, canopySegName
    saved,              \* what has been copied to the workspace, in order
    error               \* the exception that ended the run, or "none"

inputs == <<parameter0, parameter1, parameter2, parameter3, parameter4,
            cellSize>>

prep == <<CHM_Ext, CHM_Sm, CHM_Ft>>

tops == <<CHM_MinHt, treeLocHt, treeTop>>

alloc == <<treeTopAlloc, treeTopDist>>

shed == <<CHM_Inv, CHM_Flow, CHM_watershed>>

rules == <<CHM_WsEqAlloc, DistGT60Hmax, treeTopAllocHt, Htmx30GTCHM,
           CanopySegRas>>

outs == <<outNames, saved, error>>

vars == <<inputs, pc, prep, tops, treeTopReclass, alloc, shed, rules,
          CanopySegmentation, outs>>

\* line 20: the only import of the script
ImportedModules == {"arcpy"}

Heights == {Background, MaxHeight - 1, MaxHeight, TallHeight}

\* the canopy height models tried: a uniform background, a tree of MaxHeight
\* or TallHeight in the first cell, its east neighbour at background or one
\* above it, and a second tree (or none, at background height) anywhere from
\* the third column on
Rasters ==
    {Raster([c \in Cells |-> IF c = t2 THEN Whole(h2)
                      ELSE IF c = <<1, 1>> THEN Whole(h1)
                      ELSE IF c = <<1, 2>> THEN Whole(hn)
                      ELSE Whole(Background)]) :
        t2 \in {c \in Cells : c[2] > 2}, h1 \in {MaxHeight, TallHeight},
        h2 \in Heights,
        hn \in {Background, Background + 1}}

\* the clipping features tried: the whole raster, or all but its last column
Masks == {Cells, {c \in Cells : c[2] < NCols}}

Switches == {"true", "false"}

Workspaces == {"out.gdb", "out"}

NoDistances == Raster([c \in Cells |-> NoDist])

Init ==
    /\ parameter0 \in Rasters
    /\ parameter1 \in Masks
    /\ parameter2 \in Switches
    /\ parameter3 \in Switches
    /\ parameter4 \in {MinHtLow, MinHtHigh}
    /\ cellSize \in {CellSizeFine, CellSizeCoarse}
    /\ pc = "clip"
    /\ CHM_Ext = Empty /\ CHM_Sm = Empty /\ CHM_Ft = Empty
    /\ CHM_MinHt = Empty /\ treeLocHt = Empty /\ treeTop = <<>>
    /\ treeTopReclass = Empty
    /\ treeTopAlloc = Empty /\ treeTopDist = NoDistances
    /\ CHM_Inv = Empty /\ CHM_Flow = Empty /\ CHM_watershed = Empty
    /\ CHM_WsEqAlloc = Empty /\ DistGT60Hmax = Empty
    /\ treeTopAllocHt = Empty /\ Htmx30GTCHM = Empty /\ CanopySegRas = Empty
    /\ CanopySegmentation = {}
    /\ outNames = <<>>
    /\ saved = <<>>
    /\ error = "none"

----------------------------------------------------------------------------
(* The blocks of ScriptTool, in program order *)

\* line 25
ClipCHM ==
    /\ pc = "clip"
    /\ CHM_Ext' = ExtractByMask(parameter0, parameter1)
    /\ pc' = "preprocess"
    /\ UNCHANGED <<inputs, CHM_Sm, CHM_Ft, tops, treeTopReclass, alloc, shed,
                   rules, CanopySegmentation, outs>>

\* lines 28-40
SmoothAndConvert ==
    /\ pc = "preprocess"
    /\ CHM_Sm' = SmoothCHM(CHM_Ext, parameter2)
    /\ CHM_Ft' = ConvertCHM(CHM_Sm', parameter3)
    /\ pc' = "treetops"
    /\ UNCHANGED <<inputs, CHM_Ext, tops, treeTopReclass, alloc, shed, rules,
                   CanopySegmentation, outs>>

\* lines 42-61
FindTreeTops ==
    /\ pc = "treetops"
    /\ CHM_MinHt' = MinHeightMask(CHM_Ft, parameter4)
    /\ treeLocHt' = TreeLocHt(CHM_MinHt')
    /\ treeTop' = RasterToPoint(treeLocHt')
    /\ pc' = "reclass"
    /\ UNCHANGED <<inputs, prep, treeTopReclass, alloc, shed, rules,
                   CanopySegmentation, outs>>

\* lines 63-64
ReclassTreeTops ==
    /\ pc = "reclass"
    /\ \E pick \in {"first", "last"} :
          treeTopReclass' = ReclassByTable(treeLocHt, treeTop, pick)
    /\ pc' = "allocate"
    /\ UNCHANGED <<inputs, prep, tops, alloc, shed, rules, CanopySegmentation,
                   outs>>

\* lines 66-68
AllocateTreeTops ==
    /\ pc = "allocate"
    /\ LET out == EucAllocation(treeTopReclass, cellSize)
       IN  /\ treeTopAlloc' = out.value
           /\ treeTopDist' = out.distance
    /\ pc' = "watershed"
    /\ UNCHANGED <<inputs, prep, tops, treeTopReclass, shed, rules,
                   CanopySegmentation, outs>>

\* lines 70-78
DelineateWatersheds ==
    /\ pc = "watershed"
    /\ CHM_Inv' = InvertCHM(CHM_Ft)
    /\ CHM_Flow' = FlowDirection(CHM_Inv')
    /\ CHM_watershed' = Watershed(CHM_Flow', treeTopReclass)
    /\ pc' = "reconcile"
    /\ UNCHANGED <<inputs, prep, tops, treeTopReclass, alloc, rules,
                   CanopySegmentation, outs>>

\* lines 83-105
ReconcileSegments ==
    /\ pc = "reconcile"
    /\ CHM_WsEqAlloc' = EqualTo(CHM_watershed, treeTopAlloc)
    /\ DistGT60Hmax' = DistGT60HmaxOf(treeTopDist, cellSize, CHM_Ft)
    /\ treeTopAllocHt' = Lookup(treeTopAlloc, treeTop)
    /\ Htmx30GTCHM' = Htmx30GTCHMOf(treeTopAllocHt', CHM_Ft)
    /\ CanopySegRas' = CanopySegRasOf(CHM_WsEqAlloc',
                                      SegNullOf(DistGT60Hmax', Htmx30GTCHM'),
                                      treeTopAlloc)
    /\ pc' = "polygons"
    /\ UNCHANGED <<inputs, prep, tops, treeTopReclass, alloc, shed,
                   CanopySegmentation, outs>>

\* lines 107-122
VectorizeSegments ==
    /\ pc = "polygons"
    /\ CanopySegmentation' = Polygons(CanopySegRas, treeTop)
    /\ pc' = "save"
    /\ UNCHANGED <<inputs, prep, tops, treeTopReclass, alloc, shed, rules, outs>>

\* lines 125-132
OutputNames(workspace) ==
    IF Len(workspace) >= 4
       /\ SubSeq(workspace, Len(workspace) - 3, Len(workspace)) = ".gdb"
    THEN <<"CanopyHeight", "TreeTop", "CanopySegmentation">>
    ELSE <<"CanopyHeight.tif", "TreeTop.shp", "CanopySegmentation.shp">>

\* lines 138-140, in order
CopyAll(names) ==
    << [name |-> names[1], data |-> "CHM_Ft"],
       [name |-> names[2], data |-> "treeTop"],
       [name |-> names[3], data |-> "CanopySegmentation"] >>

\* lines 124-141, for either kind of output workspace (parameter5): the
\* names are chosen, then line 134 evaluates os.path.join;
\* a name that was never imported raises NameError there and ends the run
SaveOutputs ==
    /\ pc = "save"
    /\ \E parameter5 \in Workspaces : outNames' = OutputNames(parameter5)
    /\ IF "os" \in ImportedModules
       THEN /\ saved' = CopyAll(outNames')
            /\ error' = error
            /\ pc' = "done"
       ELSE /\ saved' = saved
            /\ error' = "NameError"
            /\ pc' = "failed"
    /\ UNCHANGED <<inputs, prep, tops, treeTopReclass, alloc, shed, rules,
                   CanopySegmentation>>

Next ==
    \/ ClipCHM
    \/ SmoothAndConvert
    \/ FindTreeTops
    \/ ReclassTreeTops
    \/ AllocateTreeTops
    \/ DelineateWatersheds
    \/ ReconcileSegments
    \/ VectorizeSegments
    \/ SaveOutputs

Spec == Init /\ [][Next]_vars

----------------------------------------------------------------------------
(* Where a run stands *)

Ended == pc \in {"failed", "done"}

Preprocessed == pc \notin {"clip", "preprocess"}

TreeTopsFound == Preprocessed /\ pc # "treetops"

Reclassed == TreeTopsFound /\ pc # "reclass"

Allocated == Reclassed /\ pc # "allocate"

Delineated == Allocated /\ pc # "watershed"

Reconciled == Delineated /\ pc # "reconcile"

Kept(c) == IsData(CanopySegRas[c])

IsMarker(c) == IsData(treeLocHt[c])

\* the 5 x 5 cells around c that lie on the raster
Around5(c) ==
    {n \in Cells : /\ n[1] \in (c[1] - 2)..(c[1] + 2)
                   /\ n[2] \in (c[2] - 2)..(c[2] + 2)}

\* the rows of treeTop whose TreeId is the allocation label of c
Owners(c) == {i \in DOMAIN treeTop : treeTopAlloc[c] = <<treeTop[i].TreeId, 1>>}

----------------------------------------------------------------------------
\* C1: a cell of the final grid that is not NoData has valid, equal watershed
\* and allocation labels and carries that label; a cell whose labels differ,
\* or where either label is NoData, is NoData in the final grid.
SegmentOnlyWhereLabelsAgree ==
    Reconciled =>
        \A c \in Cells :
            /\ Kept(c) =>
                  /\ IsData(CHM_watershed[c])
                  /\ IsData(treeTopAlloc[c])
                  /\ CHM_watershed[c] = treeTopAlloc[c]
                  /\ CanopySegRas[c] = treeTopAlloc[c]
            /\ (\/ ~IsData(CHM_watershed[c])
                \/ ~IsData(treeTopAlloc[c])
                \/ CHM_watershed[c] # treeTopAlloc[c]) => ~Kept(c)

\* neither Rule A nor Rule B rejects c
PassesBothRules(c) == DistGT60Hmax[c] = <<0, 1>> /\ Htmx30GTCHM[c] = <<0, 1>>

\* a run with a kept cell and a cell that passes both rules and whose two
\* valid labels differ
LabelsDisagreeSomewhere ==
    /\ Reconciled
    /\ \E c \in Cells : Kept(c)
    /\ \E c \in Cells :
          /\ IsData(CHM_watershed[c]) /\ IsData(treeTopAlloc[c])
          /\ CHM_watershed[c] # treeTopAlloc[c]
          /\ PassesBothRules(c)

----------------------------------------------------------------------------
\* the allocation distance of c times cellSize times k exceeds the height of c
DistanceShareExceeds(c, k) ==
    LET d == treeTopDist[c]
        f == Mul(<<cellSize, 1>>, k)
        h == CHM_Ft[c]
    IN  \/ h[1] < 0
        \/ /\ d[3] # 0
           /\ \/ h[1] = 0
              \/ SqGreater(d[3], Mul(<<d[1], d[2]>>, f), 1, h)

RuleAOpen(c) == CHM_WsEqAlloc[c] = <<1, 1>> /\ Htmx30GTCHM[c] = <<0, 1>>

\* C2 as stated: where the labels agree and Rule B does not reject, a cell is
\* kept iff AllocationDistance * cellSize * 0.6 <= H.
RuleAWithoutUnitFactor ==
    Reconciled =>
        \A c \in Cells :
            RuleAOpen(c) => (Kept(c) <=> ~DistanceShareExceeds(c, <<3, 5>>))

\* C2 (amended): where the labels agree and Rule B does not reject, a cell is
\* kept iff AllocationDistance * cellSize * 3.281 * 0.6 <= H; the factor
\* 3.281 is applied whether or not the conversion switch is on.
RuleAWithUnitFactor ==
    Reconciled =>
        \A c \in Cells :
            RuleAOpen(c) => (Kept(c) <=> ~DistanceShareExceeds(c, <<9843, 5000>>))

\* with the switch off and with it on: a cell away from its tree top that
\* Rule A alone rejects, and one that it keeps
RuleADecides ==
    /\ Reconciled
    /\ \E c \in Cells :
          RuleAOpen(c) /\ treeTopDist[c][3] # 0 /\ ~Kept(c)
    /\ \E c \in Cells :
          RuleAOpen(c) /\ treeTopDist[c][3] # 0 /\ Kept(c)

----------------------------------------------------------------------------
\* the height of c is below 0.3 times the height of the marker owning it
BelowOwnerShare(c) ==
    /\ IsData(CHM_Ft[c])
    /\ \E i \in Owners(c) :
          LessFrac(10 * CHM_Ft[c][1], CHM_Ft[c][2],
                   3 * treeTop[i].Height[1], treeTop[i].Height[2])

\* C5: a cell whose height is below 0.3 times its owning marker's height is
\* NoData in the final grid, also when Rule A rejects it too; a cell with
\* agreeing labels that passes Rule A is kept iff 0.3 * height(owner) <= H.
RuleBHeightRatio ==
    Reconciled =>
        \A c \in Cells :
            /\ BelowOwnerShare(c) => ~Kept(c)
            /\ (CHM_WsEqAlloc[c] = <<1, 1>> /\ DistGT60Hmax[c] = <<0, 1>>)
                  => (Kept(c) <=> ~BelowOwnerShare(c))

\* a cell with agreeing labels rejected by Rule B alone, and one rejected by
\* both rules at once
RuleBDecides ==
    /\ Reconciled
    /\ \E c \in Cells :
          /\ CHM_WsEqAlloc[c] = <<1, 1>> /\ DistGT60Hmax[c] = <<0, 1>>
          /\ BelowOwnerShare(c) /\ ~Kept(c)
    /\ \E c \in Cells :
          /\ CHM_WsEqAlloc[c] = <<1, 1>> /\ DistGT60Hmax[c] = <<1, 1>>
          /\ BelowOwnerShare(c) /\ ~Kept(c)

----------------------------------------------------------------------------
\* C3 as stated: any two distinct marker cells, also two of exactly the same
\* height, carry different ids in treeTopReclass, the grid used as allocation
\* source and as pour points.
MarkerIdsDistinct ==
    Reclassed =>
        \A a \in Cells : \A b \in Cells :
            (IsMarker(a) /\ IsMarker(b) /\ a # b)
                => (/\ IsData(treeTopReclass[a])
                    /\ IsData(treeTopReclass[b])
                    /\ treeTopReclass[a] # treeTopReclass[b])

----------------------------------------------------------------------------
\* the height of c after the minimum-height mask, from the converted grid
MaskedHeight(c) ==
    IF IsData(CHM_Ft[c]) /\ ~Less(CHM_Ft[c], Whole(parameter4))
    THEN CHM_Ft[c] ELSE NoData

\* no valid masked height among the cells S exceeds that of c
TopOf(c, S) ==
    \A n \in S : IsData(CHM_MinHt[n]) => Leq(CHM_MinHt[n], CHM_MinHt[c])

\* C4: after cells below minTreeHeight are masked to NoData, a cell is a
\* marker iff its masked height is valid and equals the maximum of the valid
\* masked heights of the 5 x 5 window centred on it; the marker's recorded
\* height is its masked height, never below minTreeHeight, and no NoData
\* cell is a marker.
MarkersAreWindowMaxima ==
    TreeTopsFound =>
        \A c \in Cells :
            /\ CHM_MinHt[c] = MaskedHeight(c)
            /\ IsMarker(c) <=> (IsData(CHM_MinHt[c]) /\ TopOf(c, Around5(c)))
            /\ IsMarker(c) =>
                  /\ treeLocHt[c] = CHM_MinHt[c]
                  /\ ~Less(treeLocHt[c], Whole(parameter4))
                  /\ IsData(CHM_Ft[c])

\* a run with a marker, a cell masked for its height, and a valid cell that
\* tops its 3 x 3 neighbours and is no marker for a higher cell two away
WindowReachMatters ==
    /\ TreeTopsFound
    /\ \E c \in Cells : IsMarker(c)
    /\ \E c \in Cells : IsData(CHM_Ft[c]) /\ ~IsData(CHM_MinHt[c])
    /\ \E c \in Cells :
          /\ IsData(CHM_MinHt[c]) /\ ~IsMarker(c)
          /\ TopOf(c, {n \in Around5(c) : /\ AbsInt(n[1] - c[1]) <= 1
                                          /\ AbsInt(n[2] - c[2]) <= 1})

----------------------------------------------------------------------------
\* some converted height reaches the inversion constant
TooTall == Preprocessed /\ \E c \in Cells : IsData(CHM_Ft[c]) /\ Leq(Whole(InvK), CHM_Ft[c])

----------------------------------------------------------------------------
\* C7 as stated: a run in which every arcpy call succeeds ends having written
\* the three outputs in this order: the height grid, the tree tops, the
\* canopy segmentation; nothing fails between the last attribute edit and
\* the first write.
AllOutputsSaved ==
    Ended =>
        /\ pc = "done"
        /\ error = "none"
        /\ Len(saved) = 3
        /\ saved[1].data = "CHM_Ft"
        /\ saved[2].data = "treeTop"
        /\ saved[3].data = "CanopySegmentation"

----------------------------------------------------------------------------
\* C8 as stated: for valid cells a and b, H(a) > H(b) implies Inv(a) < Inv(b),
\* and Inv(c) = 1000 - H(c) for every valid cell c.
InversionReversesOrder ==
    Delineated =>
        /\ \A a \in Cells : \A b \in Cells :
              (IsData(CHM_Ft[a]) /\ IsData(CHM_Ft[b]) /\ Less(CHM_Ft[b], CHM_Ft[a]))
                  => Less(CHM_Inv[a], CHM_Inv[b])
        /\ \A c \in Cells :
              IsData(CHM_Ft[c]) => CHM_Inv[c] = Sub(Whole(1000), CHM_Ft[c])

\* C8 (amended): Inv(c) is the absolute value of 1000 - H(c): 1000 - H(c) for
\* a height up to 1000 and H(c) - 1000 above; among cells of height at most
\* 1000 the inversion reverses the order, among cells of height at least 1000
\* it keeps the order.
InversionIsAbsolute ==
    Delineated =>
        /\ \A c \in Cells :
              /\ IsData(CHM_Inv[c]) <=> IsData(CHM_Ft[c])
              /\ IsData(CHM_Ft[c]) =>
                    CHM_Inv[c] = IF Leq(CHM_Ft[c], Whole(1000))
                                 THEN Sub(Whole(1000), CHM_Ft[c])
                                 ELSE Sub(CHM_Ft[c], Whole(1000))
        /\ \A a \in Cells : \A b \in Cells :
              (IsData(CHM_Ft[a]) /\ IsData(CHM_Ft[b]) /\ Less(CHM_Ft[b], CHM_Ft[a]))
                  => /\ Leq(CHM_Ft[a], Whole(1000)) => Less(CHM_Inv[a], CHM_Inv[b])
                     /\ Leq(Whole(1000), CHM_Ft[b]) => Less(CHM_Inv[b], CHM_Inv[a])

\* a run with two different heights below 1000, one above it, and a cell
\* outside the clipped grid
InvertedBothSides ==
    /\ Delineated
    /\ \E a \in Cells : \E b \in Cells :
          /\ IsData(CHM_Ft[a]) /\ IsData(CHM_Ft[b])
          /\ Less(CHM_Ft[b], CHM_Ft[a]) /\ Less(CHM_Ft[a], Whole(1000))
    /\ \E c \in Cells : IsData(CHM_Ft[c]) /\ Less(Whole(1000), CHM_Ft[c])
    /\ \E c \in Cells : ~IsData(CHM_Ft[c])

----------------------------------------------------------------------------
\* C9 as stated: every marker of positive height is in the final grid with
\* its own id: its watershed label and its allocation label are its own id,
\* its allocation distance is 0, and neither rule rejects it.
MarkersKeepOwnId ==
    Reconciled =>
        \A i \in DOMAIN treeTop :
            Less(Whole(0), treeTop[i].Height) =>
                LET c == treeTop[i].cell
                    id == Whole(treeTop[i].TreeId)
                IN  /\ CHM_watershed[c] = id
                    /\ treeTopAlloc[c] = id
                    /\ treeTopDist[c][3] = 0
                    /\ PassesBothRules(c)
                    /\ CanopySegRas[c] = id

----------------------------------------------------------------------------
\* the clipped input grid at c
Clipped(c) == IF c \in parameter1 THEN parameter0[c] ELSE NoData

====
